---- MODULE Spec2Model ----
(***************************************************************************)
(* A model of the paginated extraction engine of                           *)
(* src/discord_server_extractor.py: extract_messages_with_content (the     *)
(* cursor-driven crawl loop of one channel, suspended at each blocking     *)
(* HTTP request) and the per-channel loop of extract_server_content.       *)
(*                                                                         *)
(* Every channel has a finite history of messages with ids hist[c], ...,   *)
(* 2, 1 (newest first) and a 200 response carries records older than the   *)
(* request's `before` parameter, newest first.  Under Spec the server is a *)
(* mock: the page may have any size, from empty to one record more than    *)
(* the request's `limit`.  Under HistSpec the server is faithful: the page *)
(* is exactly the `limit` newest records older than `before`.  Both        *)
(* servers may answer 429 or an error status to any request.               *)
(*                                                                         *)
(* AggSpec models organize_messages_by_user (the fold over the flat list,  *)
(* one message per step, and the finalization of every aggregate) and the  *)
(* analyzer's extract_content_only on the aggregates it returns.           *)
(* TwiceSpec calls organize_messages_by_user twice in a row.  ServerSpec   *)
(* models a whole call of extract_server_content: the resolution of the    *)
(* channels, the crawl, a KeyboardInterrupt during the crawl, and the      *)
(* aggregation and saving after it.  ChunkSpec models the analyzer's       *)
(* chunk_messages, one content per step.                                   *)
(***************************************************************************)
EXTENDS Integers, Sequences, FiniteSets, TLC

\* ---------------------------------------------------------------- bounds
NumChannels == 2        \* channel ids are 1..NumChannels
MaxLimit == 2           \* page sizes (the `limit` argument) are 1..MaxLimit
MaxCap == 3             \* max_messages is None or 0..MaxCap
MaxHist == 3            \* a channel history holds at most MaxHist messages
Max429 == 2             \* the count of consecutive 429 answers saturates here
MaxLog == 3             \* resp_log keeps the first MaxLog responses of a channel
MaxMsgs == 3            \* organize_messages_by_user is given at most MaxMsgs messages
MaxTwice == 1           \* ... and at most MaxTwice messages when it is called twice
MaxContents == 3        \* chunk_messages is given at most MaxContents contents
MaxChars == 8           \* max_chars_per_chunk is 0..MaxChars

\* Python's None, for max_messages and for the cursor `before`
\* (message ids are positive, so every id is truthy in `if before:`).
None == -1

Channels == 1..NumChannels
ErrorStatuses == {403}

Min(a, b) == IF a <= b THEN a ELSE b

\* ---------------------------------------------------------------- state
VARIABLES
    channel_ids,     \* extract_server_content: the list of channels to crawl
    max_messages,    \* the per-channel cap, or None
    limit,           \* extract_messages_with_content: the page size argument
    hist,            \* server: hist[c] = number of messages of channel c (HistSpec)
    pc,              \* "next" | "loop" | "awaiting" | "done" | "aborted"
    idx,             \* number of channels the for-loop has taken from channel_ids
    all_messages,    \* extract_server_content: the flat list
    messages,        \* extract_messages_with_content: the accumulated list
    before,          \* the cursor
    total_messages,  \* the extracted count
    has_more,        \* the loop flag
    params,          \* the query parameters of the last request sent
    last_resp,       \* observer: the last response of this channel
    resp_log,        \* observer: the first MaxLog responses of this channel
    retries,         \* observer: consecutive 429 answers, saturating at Max429
    consumed,        \* observer: sum of the sizes of the 200 pages of this channel
    last_page,       \* observer: the most recent non-empty 200 page of this channel
    over_limit,      \* observer: a 200 page of this channel was longer than asked for
    results,         \* observer: what each finished call of the paginator returned
    crawled,         \* observer: the channel of each call of the paginator
    failed,          \* observer: the channels whose call ended on an error response
    served           \* observer: the well-formed records of all 200 pages, normalized

VARIABLES
    raw_messages,    \* the records of the pages, each with the channel of its page
    agg_messages,    \* organize_messages_by_user: the `messages` argument
    agg_pc,          \* "idle" | "raw" | "fold" | "returned" | "analyzed"
    agg_i,           \* number of messages the for loop of line 238 has taken
    user_data,       \* the map from author id to aggregate
    content_list,    \* analyzer: extract_content_only of each returned aggregate
    calls,           \* observer: the calls of organize_messages_by_user so far
    prev_messages    \* observer: the `messages` argument of the call before

VARIABLES
    ids_given,       \* extract_server_content: channel_ids was not None at the call
    enumerated,      \* observer: "pending" | "failed" | "ok", what enumerate_channels did
    outcome,         \* "running" | "none" | "dir" | "raised" | "interrupted"
    organized,       \* observer: the argument of each call of organize_messages_by_user
    saved            \* observer: the messages of the aggregates of each call of save_user_data

VARIABLES
    chunk_input,          \* chunk_messages: the content_list argument
    max_chars_per_chunk,  \* the limit argument
    chunks,               \* the chunks closed so far
    current_chunk,        \* the chunk being filled
    current_length,       \* its length, each message counted with quotes and newline
    chunk_i,              \* number of contents the for loop has taken
    chunk_pc              \* "idle" | "loop" | "returned"

inputs == <<channel_ids, max_messages, limit, hist>>
locals == <<messages, before, total_messages, has_more>>
channel_observers == <<last_resp, resp_log, retries, consumed, last_page, over_limit>>
crawl_observers == <<results, crawled, failed, served>>
observers == <<channel_observers, crawl_observers>>
crawl_vars == <<channel_ids, max_messages, limit, hist, pc, idx, all_messages,
                messages, before, total_messages, has_more, params,
                last_resp, resp_log, retries, consumed, last_page, over_limit,
                results, crawled, failed, served>>
agg_vars == <<raw_messages, agg_messages, agg_pc, agg_i, user_data, content_list,
              calls, prev_messages>>
agg_observers == <<calls, prev_messages>>
run_vars == <<ids_given, enumerated, outcome, organized, saved>>
chunk_vars == <<chunk_input, max_chars_per_chunk, chunks, current_chunk,
                current_length, chunk_i, chunk_pc>>
other_vars == <<run_vars, chunk_vars>>
vars == <<crawl_vars, agg_vars, run_vars, chunk_vars>>

\* A response as the observers record it: its status, the number of records it
\* carried and the `limit` of the request it answered.
Resp(status, n, asked) == [status |-> status, n |-> n, asked |-> asked]
NoResp == Resp(0, 0, 0)
NoParams == [limit |-> 0, before |-> None]

\* Lists of distinct channel ids, of length 1..NumChannels.
ChannelLists ==
    { s \in UNION { [1..n -> Channels] : n \in 1..NumChannels } :
        \A i, j \in DOMAIN s : i # j => s[i] # s[j] }

\* ------------------------------------------------- extract_messages_with_content
\* The current channel (the channel_id argument of the running call).
channel_id == channel_ids[idx]

\* A while condition that admits one more round at the cap.
LoopCondOffByOne(more, maxm, total) == more /\ (maxm = None \/ total <= maxm)

\* Line 45: the while condition.
LoopCond(more, maxm, total) == more /\ (maxm = None \/ total < maxm)

\* A batch size that ignores the remaining budget.
BatchLimitNoBudget(lim, maxm, total) == lim

BatchLimitRemaining(lim, maxm, total) ==
    IF maxm # None THEN maxm - total ELSE lim

\* Lines 47-49: the batch size.
BatchLimit(lim, maxm, total) ==
    IF maxm # None THEN Min(lim, maxm - total) ELSE lim

\* Lines 52-54: the query parameters; `before` is sent only when truthy.
Params(lim, maxm, total, bef) ==
    [limit |-> BatchLimit(lim, maxm, total),
     before |-> IF bef # None /\ bef # 0 THEN bef ELSE None]

\* What can be wrong with a raw record: a timestamp that does not parse
\* (ValueError at line 69) or a mandatory key that is missing (KeyError at
\* lines 69, 74, 75 or 169).
Defects == {"unparseable_timestamp", "missing_field"}

\* Lines 69-169: the record normalizes without an exception.
WellFormed(msg) == "defect" \notin DOMAIN msg

\* Lines 66-190: one raw record normalized (the fields the crawl loop depends on).
Normalize(msg, cid) == [id |-> msg.id, channel_id |-> cid]

AppendBatchFront(msgs, batch, cid) ==
    [j \in 1..Len(batch) |-> Normalize(batch[j], cid)] \o msgs

\* Lines 67-190: every record of the batch is normalized and appended, in order.
AppendBatch(msgs, batch, cid) ==
    msgs \o [j \in 1..Len(batch) |-> Normalize(batch[j], cid)]

\* A cursor taken from the first record of the page instead of the last.
NextBeforeFirst(batch) == batch[1].id

\* Line 193: the cursor after a non-empty page.
NextBefore(batch) == batch[Len(batch)].id

\* A loop that stops on an empty page only, not on a short one.
HasMoreIgnoresShort(more, batch, batch_limit) ==
    IF Len(batch) = 0 THEN FALSE ELSE more

\* A loop that stops on a short non-empty page only, not on an empty one.
HasMoreIgnoresEmpty(more, batch, batch_limit) ==
    IF Len(batch) = 0 THEN more
    ELSE IF Len(batch) < batch_limit THEN FALSE ELSE more

\* Lines 62-64 and 197-198: the loop flag after a 200 page.
HasMoreAfter200(more, batch, batch_limit) ==
    IF Len(batch) = 0 THEN FALSE
    ELSE IF Len(batch) < batch_limit THEN FALSE ELSE more

\* Observers' updates on a response carrying `batch` (empty unless a 200).
Observe(status, batch) ==
    LET r == Resp(status, Len(batch), params.limit)
    IN  /\ last_resp' = r
        /\ resp_log' = IF Len(resp_log) < MaxLog THEN Append(resp_log, r) ELSE resp_log
        /\ retries' = IF status = 429 THEN Min(retries + 1, Max429) ELSE 0
        /\ consumed' = consumed + Len(batch)
        /\ last_page' = IF Len(batch) > 0 THEN batch ELSE last_page
        /\ over_limit' = (over_limit \/ Len(batch) > params.limit)
        /\ failed' = IF status \in ErrorStatuses
                        THEN failed \cup {channel_id} ELSE failed
        /\ served' = served \o AppendBatch(<<>>, SelectSeq(batch, WellFormed), channel_id)
        /\ UNCHANGED <<results, crawled>>

\* Lines 45-57: the loop condition holds; the request is sent.
Request ==
    /\ pc = "loop"
    /\ LoopCond(has_more, max_messages, total_messages)
    /\ params' = Params(limit, max_messages, total_messages, before)
    /\ pc' = "awaiting"
    /\ UNCHANGED <<inputs, agg_vars, other_vars, idx, all_messages, locals, observers>>

\* Lines 59-198: a 200 response carrying `batch`.
Handle200(batch) ==
    /\ IF Len(batch) = 0
         THEN UNCHANGED <<messages, before, total_messages>>
         ELSE /\ messages' = AppendBatch(messages, batch, channel_id)
              /\ before' = NextBefore(batch)
              /\ total_messages' = total_messages + Len(batch)
    /\ has_more' = HasMoreAfter200(has_more, batch, params.limit)
    /\ Observe(200, batch)
    /\ pc' = "loop"
    /\ UNCHANGED <<inputs, agg_vars, other_vars, idx, all_messages, params>>

\* Server: the k newest raw records of channel c older than the cursor bef
\* (all of the channel when no cursor is sent), newest first.
Page(c, bef, k) ==
    LET top == IF bef = None THEN hist[c] ELSE bef - 1
    IN  [j \in 1..Min(k, top) |-> [id |-> top - j + 1]]

\* The mock server's 200 response: a page of any size, up to one record more
\* than was asked for.
Resp200 ==
    /\ pc = "awaiting"
    /\ \E k \in 0..(params.limit + 1) :
          Handle200(Page(channel_id, params.before, k))

\* The faithful server's 200 response: the page that was asked for.
Resp200Hist ==
    /\ pc = "awaiting"
    /\ Handle200(Page(channel_id, params.before, params.limit))

\* The page with its j-th record made defective.
WithDefect(page, j, d) ==
    [i \in 1..Len(page) |->
        IF i = j THEN [id |-> page[i].id, defect |-> d] ELSE page[i]]

\* Lines 59-80, 623, 693 and 708-709: a 200 response whose j-th record does not
\* normalize.  The records before it are appended, the exception leaves the
\* loop, extract_messages_with_content and extract_server_content, and main
\* catches it: the crawl is over and nothing is aggregated or written.
Resp200Defective ==
    /\ pc = "awaiting"
    /\ \E k \in 1..params.limit, j \in 1..params.limit, d \in Defects :
          LET page == Page(channel_id, params.before, k)
              batch == WithDefect(page, j, d)
          IN  /\ j <= Len(page)
              /\ messages' = AppendBatch(messages, SubSeq(batch, 1, j - 1), channel_id)
              /\ Observe(200, batch)
    /\ pc' = "aborted"
    /\ UNCHANGED <<inputs, agg_vars, other_vars, idx, all_messages, before, total_messages, has_more, params>>

\* A 429 handler with a retry budget: it gives up on the second consecutive 429.
Resp429GivesUp ==
    /\ pc = "awaiting"
    /\ has_more' = (retries < 1)
    /\ Observe(429, <<>>)
    /\ pc' = "loop"
    /\ UNCHANGED <<inputs, agg_vars, other_vars, idx, all_messages, messages, before, total_messages, params>>

\* A 429 handler that forgets the cursor, so the retry starts from the newest record.
Resp429ResetsCursor ==
    /\ pc = "awaiting"
    /\ before' = None
    /\ Observe(429, <<>>)
    /\ pc' = "loop"
    /\ UNCHANGED <<inputs, agg_vars, other_vars, idx, all_messages, messages, total_messages, has_more, params>>

\* Lines 200-203: a 429 response; the loop sleeps and goes round again.
Resp429 ==
    /\ pc = "awaiting"
    /\ Observe(429, <<>>)
    /\ pc' = "loop"
    /\ UNCHANGED <<inputs, agg_vars, other_vars, idx, all_messages, locals, params>>

\* An error handler that discards what the channel has yielded so far.
RespErrorDrops ==
    /\ pc = "awaiting"
    /\ \E st \in ErrorStatuses : Observe(st, <<>>)
    /\ has_more' = FALSE
    /\ messages' = <<>>
    /\ pc' = "loop"
    /\ UNCHANGED <<inputs, agg_vars, other_vars, idx, all_messages, before, total_messages, params>>

\* Lines 204-206: any other status.
RespError ==
    /\ pc = "awaiting"
    /\ \E st \in ErrorStatuses : Observe(st, <<>>)
    /\ has_more' = FALSE
    /\ pc' = "loop"
    /\ UNCHANGED <<inputs, agg_vars, other_vars, idx, all_messages, messages, before, total_messages, params>>

\* ------------------------------------------------------ extract_server_content
\* A flat list that is replaced by the channel's messages instead of extended.
ExtendReplaces(all, channel_messages) ==
    IF Len(channel_messages) > 0 THEN channel_messages ELSE all

\* Lines 630-631: the flat list after one channel's call has returned.
Extend(all, channel_messages) ==
    IF Len(channel_messages) > 0 THEN all \o channel_messages ELSE all

\* Lines 615-628 and 30-43: the for-loop takes the next channel and calls the
\* paginator, whose locals are initialized.
StartChannel ==
    /\ pc = "next"
    /\ idx < Len(channel_ids)
    /\ idx' = idx + 1
    /\ messages' = <<>>
    /\ before' = None
    /\ total_messages' = 0
    /\ has_more' = TRUE
    /\ params' = NoParams
    /\ last_resp' = NoResp
    /\ resp_log' = <<>>
    /\ retries' = 0
    /\ consumed' = 0
    /\ last_page' = <<>>
    /\ over_limit' = FALSE
    /\ crawled' = Append(crawled, channel_ids[idx + 1])
    /\ pc' = "loop"
    /\ UNCHANGED <<inputs, agg_vars, other_vars, all_messages, results, failed, served>>

\* Lines 45, 208-209 and 630-631: the loop condition fails, the call returns its
\* messages and the caller extends the flat list.
Return ==
    /\ pc = "loop"
    /\ ~LoopCond(has_more, max_messages, total_messages)
    /\ all_messages' = Extend(all_messages, messages)
    /\ results' = Append(results, messages)
    /\ pc' = "next"
    /\ UNCHANGED <<inputs, agg_vars, other_vars, idx, locals, params, channel_observers, crawled, failed, served>>

\* Line 615: the for-loop is exhausted.
Finish ==
    /\ pc = "next"
    /\ idx = Len(channel_ids)
    /\ pc' = "done"
    /\ UNCHANGED <<inputs, agg_vars, other_vars, idx, all_messages, locals, params, observers>>

\* The channel types that lines 593-596 and 600-603 keep, and one they drop.
TextTypes == {"Text", "Announcement"}
ChannelTypes == TextTypes \cup {"Voice"}

\* What enumerate_channels may return: None (lines 469-473 and 485-489), or
\* the dict of the server's channels, of which the model keeps the types.
EnumerateResults ==
    {[returned |-> "None", items |-> <<>>]}
        \cup {[returned |-> "dict", items |-> m] :
                 m \in UNION {[S -> ChannelTypes] : S \in SUBSET Channels}}

\* Line 587: `not all_channels` holds of None and of the empty dict.
Falsy(all_channels) ==
    all_channels.returned = "None" \/ DOMAIN all_channels.items = {}

\* Lines 593-596: the ids of the text channels.
TextChannels(all_channels) ==
    {id \in DOMAIN all_channels.items : all_channels.items[id] \in TextTypes}

\* Lines 585-604: the lists that channel_ids may be after the branch; the
\* keys of text_channels come in the order of the server's answer.
ResolvedIds(given, all_channels, ids) ==
    IF given \/ Falsy(all_channels)
        THEN {ids}
        ELSE {s \in [1..Cardinality(TextChannels(all_channels)) -> Channels] :
                {s[i] : i \in DOMAIN s} = TextChannels(all_channels)}

\* A branch for supplied ids that goes on without the channels' metadata.
ResolveOutcomeTolerant(given, all_channels, ids) ==
    IF ~given /\ Falsy(all_channels) THEN "none"
    ELSE IF ids = <<>> THEN "none"
    ELSE "running"

\* Lines 585-608: how the resolution of the channels ends.  With supplied ids
\* line 600 calls all_channels.items(), which raises when all_channels is None.
ResolveOutcome(given, all_channels, ids) ==
    IF ~given /\ Falsy(all_channels) THEN "none"
    ELSE IF given /\ all_channels.returned = "None" THEN "raised"
    ELSE IF ids = <<>> THEN "none"
    ELSE "running"

\* Lines 585-608: enumerate_channels is called and the list of channels to
\* crawl is settled, or the call of extract_server_content ends.
ResolveChannels ==
    /\ pc = "init"
    /\ \E all_channels \in EnumerateResults :
          /\ enumerated' = IF all_channels.returned = "None" THEN "failed" ELSE "ok"
          /\ \E ids \in ResolvedIds(ids_given, all_channels, channel_ids) :
                /\ channel_ids' = ids
                /\ outcome' = ResolveOutcome(ids_given, all_channels, ids)
                /\ pc' = IF ResolveOutcome(ids_given, all_channels, ids) = "running"
                             THEN "next"
                             ELSE "exited"
    /\ UNCHANGED <<max_messages, limit, hist, idx, all_messages, locals, params,
                   observers, agg_vars, chunk_vars, ids_given, organized, saved>>

\* A KeyboardInterrupt is raised while the paginator runs.  No handler is on
\* its way: lines 582 and 708 catch Exception, which it is not.  The process
\* ends and its locals are gone.
Interrupt ==
    /\ pc \in {"loop", "awaiting"}
    /\ outcome' = "interrupted"
    /\ pc' = "exited"
    /\ UNCHANGED <<inputs, idx, all_messages, locals, params, observers, agg_vars,
                   chunk_vars, ids_given, enumerated, organized, saved>>

NothingExtractedNever(all) == FALSE

\* Line 633: `not all_messages`.
NothingExtracted(all) == all = <<>>

\* Lines 633-648: after the for-loop; the aggregates that save_user_data
\* writes are those of the list that organize_messages_by_user was given.
Conclude ==
    /\ pc = "done"
    /\ outcome = "running"
    /\ IF NothingExtracted(all_messages)
          THEN /\ outcome' = "none"
               /\ UNCHANGED <<organized, saved>>
          ELSE /\ organized' = Append(organized, all_messages)
               /\ saved' = Append(saved, all_messages)
               /\ outcome' = "dir"
    /\ pc' = "exited"
    /\ UNCHANGED <<inputs, idx, all_messages, locals, params, observers, agg_vars,
                   chunk_vars, ids_given, enumerated>>

\* ------------------------------------------------- the normalizer in detail
\* The crawl above keeps of a message its id and channel.  The definitions
\* below keep its fields.  A string whose characters matter (content) is the
\* sequence of its characters; a timestamp string is the record of its
\* parts; a Python dict is a record; an absent key is a field the record
\* does not have.
NoneStr == "None"       \* Python None where the other values are strings
NoneRec == <<>>         \* Python None where the other values are dicts

\* dict.get(key, default)
Get(d, key, default) == IF key \in DOMAIN d THEN d[key] ELSE default

OrFirst(x, y) == x

\* x or y, for a string x that may be None
Or(x, y) == IF x = NoneStr \/ x = "" THEN y ELSE x

\* An ISO 8601 timestamp string "2024-01-01T00:00:<sec>[.<frac>]<suffix>":
\* sec the seconds, frac the tenths of a second (0: no fraction is written),
\* suffix the UTC designator "Z" or "+00:00".
TS(sec, frac, suffix) == [sec |-> sec, frac |-> frac, suffix |-> suffix]

\* datetime.fromisoformat(s.replace('Z', '+00:00')): the instant, in tenths
\* of a second since 2024-01-01T00:00:00+00:00.
Instant(ts) == ts.sec * 10 + ts.frac

\* datetime.isoformat(): always with the "+00:00" designator.
IsoFormat(t) == TS(t \div 10, t % 10, "+00:00")

\* created_at.strftime("%Y-%m-%d %H:%M:%S"): the fraction and the designator
\* are not printed.
StrfTime(t) == t \div 10

FullUsernameAlways(username, discriminator) == username \o "#" \o discriminator

FullUsername(username, discriminator) ==
    IF discriminator # "0"
        THEN username \o "#" \o discriminator
        ELSE username

AuthorInfo(author) ==
    [id |-> author.id,
     username |-> author.username,
     discriminator |-> Get(author, "discriminator", "0"),
     display_name |-> Or(Get(author, "global_name", NoneStr), author.username),
     bot |-> Get(author, "bot", FALSE),
     avatar |-> Get(author, "avatar", NoneStr)]

AttachmentData(attachment) ==
    [id |-> attachment.id,
     filename |-> attachment.filename,
     size |-> attachment.size,
     url |-> attachment.url,
     content_type |-> Get(attachment, "content_type", NoneStr),
     width |-> Get(attachment, "width", None),
     height |-> Get(attachment, "height", None)]

\* The keys an embed keeps only when it has them.
EmbedOptional == {"fields", "author", "footer", "image", "thumbnail"}

EmbedData(embed) ==
    [type |-> Get(embed, "type", NoneStr),
     title |-> Get(embed, "title", NoneStr),
     description |-> Get(embed, "description", NoneStr),
     url |-> Get(embed, "url", NoneStr),
     color |-> Get(embed, "color", None),
     timestamp |-> Get(embed, "timestamp", NoneStr)]
    @@ [k \in EmbedOptional \cap DOMAIN embed |-> embed[k]]

ReactionData(reaction) ==
    [emoji |-> reaction.emoji,
     count |-> reaction.count,
     me |-> Get(reaction, "me", FALSE)]

MentionData(mention) ==
    [id |-> mention.id,
     username |-> mention.username,
     discriminator |-> Get(mention, "discriminator", "0"),
     display_name |-> Or(Get(mention, "global_name", NoneStr), mention.username)]

Digits == {"0", "1", "2", "3", "4", "5", "6", "7", "8", "9"}

\* The end of the run of digits of s that starts at position i (i - 1 if
\* s[i] is not a digit).
RECURSIVE DigitsEnd(_, _)
DigitsEnd(s, i) ==
    IF i <= Len(s) /\ s[i] \in Digits THEN DigitsEnd(s, i + 1) ELSE i - 1

\* re.findall(r'<#(\d+)>', content), from position i on.
RECURSIVE FindChannelMentions(_, _)
FindChannelMentions(s, i) ==
    IF i + 3 > Len(s) THEN <<>>
    ELSE LET e == DigitsEnd(s, i + 2)
         IN  IF /\ s[i] = "<"
                /\ s[i + 1] = "#"
                /\ e >= i + 2
                /\ e < Len(s)
                /\ s[e + 1] = ">"
                 THEN <<SubSeq(s, i + 2, e)>> \o FindChannelMentions(s, e + 2)
                 ELSE FindChannelMentions(s, i + 1)

ReplyInfo(msg) ==
    IF Get(msg, "message_reference", NoneRec) # NoneRec
        THEN [message_id |-> Get(msg.message_reference, "message_id", None),
              channel_id |-> Get(msg.message_reference, "channel_id", None),
              guild_id |-> Get(msg.message_reference, "guild_id", None)]
        ELSE NoneRec

\* message_data of one raw record of a page of channel cid.
MessageData(msg, cid, cname) ==
    LET author_info == AuthorInfo(msg.author)
        content == Get(msg, "content", <<>>)
        attachments == Get(msg, "attachments", <<>>)
        embeds == Get(msg, "embeds", <<>>)
        reactions == Get(msg, "reactions", <<>>)
        mentions == Get(msg, "mentions", <<>>)
    IN  [message_id |-> msg.id,
         channel_id |-> cid,
         channel_name |-> cname,
         timestamp |-> StrfTime(Instant(msg.timestamp)),
         timestamp_iso |-> msg.timestamp,
         author |-> author_info,
         full_username |-> FullUsername(author_info.username,
                                        author_info.discriminator),
         content |-> content,
         attachments |-> [i \in DOMAIN attachments |-> AttachmentData(attachments[i])],
         embeds |-> [i \in DOMAIN embeds |-> EmbedData(embeds[i])],
         reactions |-> [i \in DOMAIN reactions |-> ReactionData(reactions[i])],
         mentions |-> [i \in DOMAIN mentions |-> MentionData(mentions[i])],
         role_mentions |-> Get(msg, "mention_roles", <<>>),
         channel_mentions |-> IF content # <<>>
                                 THEN FindChannelMentions(content, 1)
                                 ELSE <<>>,
         reply_to |-> ReplyInfo(msg),
         pinned |-> Get(msg, "pinned", FALSE),
         edited_timestamp |-> Get(msg, "edited_timestamp", NoneStr),
         message_type |-> Get(msg, "type", 0),
         flags |-> Get(msg, "flags", 0)]

\* ------------------------------------------------- organize_messages_by_user
Range(s) == {s[i] : i \in DOMAIN s}

ListsOfSetRepeated(S) ==
    {s \o s : s \in {t \in [1..Cardinality(S) -> S] : {t[i] : i \in DOMAIN t} = S}}

\* The orders in which list(set) may enumerate the set S.
ListsOfSet(S) == {s \in [1..Cardinality(S) -> S] : Range(s) = S}

\* The value of the defaultdict of lines 221-236 for a key it does not hold.
DefaultAggregate ==
    [user_info |-> NoneRec,
     messages |-> <<>>,
     stats |-> [total_messages |-> 0,
                total_characters |-> 0,
                total_words |-> 0,
                channels_used |-> {},
                attachments_sent |-> 0,
                embeds_sent |-> 0,
                reactions_received |-> 0,
                mentions_made |-> 0,
                first_message |-> None,
                last_message |-> None]]

IsSpace(ch) == ch = " "

\* len(content.split()): the number of maximal runs of non-space characters.
RECURSIVE WordCount(_)
WordCount(content) ==
    IF content = <<>> THEN 0
    ELSE IF IsSpace(Head(content)) THEN WordCount(Tail(content))
    ELSE IF Len(content) > 1 /\ ~IsSpace(content[2]) THEN WordCount(Tail(content))
    ELSE 1 + WordCount(Tail(content))

\* sum(reaction['count'] for reaction in reactions)
RECURSIVE SumCounts(_)
SumCounts(reactions) ==
    IF reactions = <<>> THEN 0
    ELSE Head(reactions).count + SumCounts(Tail(reactions))

UserInfoLastWrite(user_info, msg) ==
    msg.author @@ [full_username |-> msg.full_username]

\* Lines 242-244: user_info is written when it is still None.
UserInfo(user_info, msg) ==
    IF user_info = NoneRec
        THEN msg.author @@ [full_username |-> msg.full_username]
        ELSE user_info

FirstMessageFirstSeen(first_message, msg_time) ==
    IF first_message = None THEN msg_time ELSE first_message

\* Lines 262-263
FirstMessage(first_message, msg_time) ==
    IF first_message = None \/ msg_time < first_message
        THEN msg_time
        ELSE first_message

LastMessageLastSeen(last_message, msg_time) == msg_time

\* Lines 264-265
LastMessage(last_message, msg_time) ==
    IF last_message = None \/ msg_time > last_message
        THEN msg_time
        ELSE last_message

InputAfterAliased(user_info, msg) ==
    IF user_info = NoneRec
        THEN [msg EXCEPT !.author = @ @@ [full_username |-> msg.full_username]]
        ELSE msg

\* The message msg of the input list after lines 242-247: line 243 copies
\* the author dict, so line 244 writes full_username to the copy; line 247
\* appends the message itself and nothing writes to it.
InputAfter(user_info, msg) == msg

\* One iteration of the loop of line 238 on the map ud.
FoldMsg(ud, msg) ==
    LET user_id == msg.author.id
        cur == IF user_id \in DOMAIN ud THEN ud[user_id] ELSE DefaultAggregate
        stats == cur.stats
        msg_time == Instant(msg.timestamp_iso)
        new == [user_info |-> UserInfo(cur.user_info, msg),
                messages |-> Append(cur.messages, msg),
                stats |->
                   [total_messages |-> stats.total_messages + 1,
                    total_characters |-> stats.total_characters + Len(msg.content),
                    total_words |-> stats.total_words
                        + (IF msg.content # <<>> THEN WordCount(msg.content) ELSE 0),
                    channels_used |-> stats.channels_used \cup {msg.channel_id},
                    attachments_sent |-> stats.attachments_sent + Len(msg.attachments),
                    embeds_sent |-> stats.embeds_sent + Len(msg.embeds),
                    reactions_received |-> stats.reactions_received
                        + SumCounts(msg.reactions),
                    mentions_made |-> stats.mentions_made + Len(msg.mentions),
                    first_message |-> FirstMessage(stats.first_message, msg_time),
                    last_message |-> LastMessage(stats.last_message, msg_time)]]
    IN  [u \in DOMAIN ud \cup {user_id} |-> IF u = user_id THEN new ELSE ud[u]]

\* a / b of Python: the quotient as a fraction; den = 0 is ZeroDivisionError.
Div(a, b) == [num |-> a, den |-> b]

AverageUnguarded(total, count) == Div(total, count)

\* Lines 279-284, count the user's total_messages
Average(total, count) ==
    IF count > 0 THEN Div(total, count) ELSE Div(0, 1)

\* The character codes of the timestamp string ts after its first 17
\* characters "2024-01-01T00:00:", seconds in one position.
TimestampChars(ts) ==
    <<ts.sec>>
    \o (IF ts.frac = 0 THEN <<>> ELSE <<46, 48 + ts.frac, 48, 48, 48, 48, 48>>)
    \o (IF ts.suffix = "Z" THEN <<90>> ELSE <<43, 48, 48, 58, 48, 48>>)

\* a < b for strings (sequences of character codes)
RECURSIVE StrLess(_, _)
StrLess(a, b) ==
    IF b = <<>> THEN FALSE
    ELSE IF a = <<>> THEN TRUE
    ELSE IF Head(a) # Head(b) THEN Head(a) < Head(b)
    ELSE StrLess(Tail(a), Tail(b))

\* The key of line 287
SortKey(msg) == TimestampChars(msg.timestamp_iso)

\* m is put after the entries of the sorted list s whose key is not greater.
RECURSIVE SortedInsert(_, _)
SortedInsert(s, m) ==
    IF s = <<>> THEN <<m>>
    ELSE IF StrLess(SortKey(m), SortKey(Head(s))) THEN <<m>> \o s
    ELSE <<Head(s)>> \o SortedInsert(Tail(s), m)

\* list.sort(key=...): a stable sort.
RECURSIVE SortMessages(_)
SortMessages(msgs) ==
    IF msgs = <<>> THEN <<>>
    ELSE SortedInsert(SortMessages(SubSeq(msgs, 1, Len(msgs) - 1)), msgs[Len(msgs)])

\* Lines 269-284 on the stats of one aggregate; channels is the list that
\* list(set) made.
FinalizeStats(stats, channels) ==
    [stats EXCEPT
        !.channels_used = channels,
        !.first_message = IF @ # None THEN IsoFormat(@) ELSE @,
        !.last_message = IF @ # None THEN IsoFormat(@) ELSE @]
    @@ [unique_channels |-> Len(channels),
        avg_message_length |->
            Average(stats.total_characters, stats.total_messages),
        avg_words_per_message |->
            Average(stats.total_words, stats.total_messages)]

\* The list s without the entries that have the key of the entry before.
RECURSIVE DropRepeatedKeys(_)
DropRepeatedKeys(s) ==
    IF Len(s) < 2 THEN s
    ELSE IF SortKey(s[1]) = SortKey(s[2]) THEN DropRepeatedKeys(Tail(s))
    ELSE <<s[1]>> \o DropRepeatedKeys(Tail(s))

FinalizeUserDistinctTimes(agg, channels) ==
    [user_info |-> agg.user_info,
     messages |-> DropRepeatedKeys(SortMessages(agg.messages)),
     stats |-> FinalizeStats(agg.stats, channels)]

\* Lines 269-287 for one aggregate.
FinalizeUser(agg, channels) ==
    [user_info |-> agg.user_info,
     messages |-> SortMessages(agg.messages),
     stats |-> FinalizeStats(agg.stats, channels)]

\* ------------------------------------------ analyzer: extract_content_only
RECURSIVE LStrip(_)
LStrip(s) == IF s # <<>> /\ IsSpace(Head(s)) THEN LStrip(Tail(s)) ELSE s

RECURSIVE RStrip(_)
RStrip(s) ==
    IF s # <<>> /\ IsSpace(s[Len(s)]) THEN RStrip(SubSeq(s, 1, Len(s) - 1)) ELSE s

\* str.strip()
Strip(s) == RStrip(LStrip(s))

ExtractContentOnlyNoStrip(aggregate) ==
    LET contents == [i \in 1..Len(aggregate.messages) |->
                        Get(aggregate.messages[i], "content", <<>>)]
    IN  SelectSeq(contents, LAMBDA content : content # <<>>)

ExtractContentOnly(aggregate) ==
    LET contents == [i \in 1..Len(aggregate.messages) |->
                        Strip(Get(aggregate.messages[i], "content", <<>>))]
    IN  SelectSeq(contents, LAMBDA content : content # <<>>)

\* --------------------------------------------- the inputs of the aggregator
Authors == 1..2

TimestampList ==
    <<TS(0, 0, "+00:00"), TS(0, 0, "Z"), TS(0, 5, "Z"), TS(1, 0, "Z")>>

\* What the first author posts: a record with the mandatory fields only,
\* "hi" and "bye"; the second author posts "ok " and " ".
KindList(a) == IF a = 1 THEN <<"absent", "hi", "bye">> ELSE <<"ok", "blank">>

\* When they post: the first author at any timestamp of the list, the second
\* at the two whole seconds written with "Z".
TimesOf(a) == IF a = 1 THEN DOMAIN TimestampList ELSE {2, 4}

RawAuthor(a, kind) ==
    IF kind = "absent" THEN [id |-> a, username |-> "alice"]
    ELSE IF a = 1
        THEN [id |-> a, username |-> "alice", discriminator |-> "0",
              global_name |-> IF kind = "hi" THEN "Al" ELSE NoneStr,
              bot |-> FALSE, avatar |-> "a.png"]
        ELSE [id |-> a, username |-> "bob", discriminator |-> "4242",
              avatar |-> NoneStr]

RawMsg(a, ti, ki) ==
    LET kind == KindList(a)[ki]
        base == [id |-> a * 100 + ti * 10 + ki,
                 timestamp |-> TimestampList[ti],
                 author |-> RawAuthor(a, kind)]
    IN  CASE kind = "absent" -> base
          [] kind = "hi" ->
                base @@ [content |-> <<"h", "i">>,
                         reactions |-> <<[emoji |-> [name |-> "up"], count |-> 2],
                                         [emoji |-> [name |-> "eyes"], count |-> 1,
                                          me |-> TRUE]>>,
                         pinned |-> TRUE]
          [] kind = "bye" ->
                base @@ [content |-> <<"b", "y", "e">>,
                         mentions |-> <<[id |-> 2, username |-> "bob",
                                         discriminator |-> "4242"]>>,
                         embeds |-> <<[type |-> "rich", title |-> "t",
                                       footer |-> [text |-> "f"]]>>,
                         message_reference |-> [message_id |-> 1, channel_id |-> 1],
                         type |-> 19]
          [] kind = "blank" ->
                base @@ [content |-> <<" ">>,
                         attachments |-> <<[id |-> 1, filename |-> "f.png",
                                            size |-> 10, url |-> "u", width |-> 4]>>]
          [] kind = "ok" ->
                base @@ [content |-> <<"o", "k", " ">>,
                         mention_roles |-> <<7>>,
                         flags |-> 4]

\* The channel whose page holds the record.
RawChannel(a, ti, ki) ==
    IF KindList(a)[ki] = "bye" \/ TimestampList[ti].sec > 0
        THEN 2 ELSE 1

ChannelName(c) == IF c = 1 THEN "general" ELSE "random"

RawFixture ==
    UNION {{[channel_id |-> RawChannel(a, ti, ki), msg |-> RawMsg(a, ti, ki)] :
               ti \in TimesOf(a), ki \in DOMAIN KindList(a)} :
           a \in Authors}

\* The lists of at most max records of the fixture, no record twice.
RawListsUpTo(max) ==
    UNION {{s \in [1..n -> RawFixture] :
               \A i, j \in 1..n : i < j => s[i].msg.id # s[j].msg.id} :
           n \in 0..max}

RawLists == RawListsUpTo(MaxMsgs)

\* message_data of every record of the list raw.
NormalizeAll(raw) ==
    [i \in 1..Len(raw) |->
        MessageData(raw[i].msg, raw[i].channel_id, ChannelName(raw[i].channel_id))]

\* ------------------------------------------------ the aggregator's actions
\* Lines 66-190 on every record, and the call of organize_messages_by_user
\* on the list of the message_data.
NormalizeBatch ==
    /\ agg_pc = "raw"
    /\ agg_messages' = NormalizeAll(raw_messages)
    /\ agg_pc' = "fold"
    /\ UNCHANGED <<crawl_vars, other_vars, agg_observers, raw_messages, agg_i, user_data, content_list>>

\* One iteration of the loop of line 238.
FoldStep ==
    /\ agg_pc = "fold"
    /\ agg_i < Len(agg_messages)
    /\ user_data' = FoldMsg(user_data, agg_messages[agg_i + 1])
    /\ agg_messages' =
          [agg_messages EXCEPT ![agg_i + 1] =
              InputAfter(IF @.author.id \in DOMAIN user_data
                             THEN user_data[@.author.id].user_info
                             ELSE NoneRec,
                         @)]
    /\ agg_i' = agg_i + 1
    /\ UNCHANGED <<crawl_vars, other_vars, agg_observers, raw_messages, agg_pc, content_list>>

\* The loop of line 268 and the return of line 289.
Finalize ==
    /\ agg_pc = "fold"
    /\ agg_i = Len(agg_messages)
    /\ \E channels \in [DOMAIN user_data -> UNION {ListsOfSet(S) : S \in SUBSET Channels}] :
          /\ \A u \in DOMAIN user_data :
                channels[u] \in ListsOfSet(user_data[u].stats.channels_used)
          /\ user_data' = [u \in DOMAIN user_data |->
                              FinalizeUser(user_data[u], channels[u])]
    /\ agg_pc' = "returned"
    /\ UNCHANGED <<crawl_vars, other_vars, agg_observers, raw_messages, agg_messages, agg_i, content_list>>

NewUserDataProcessWide == [u \in DOMAIN user_data |-> DefaultAggregate]

\* Line 221: every call makes a defaultdict of its own, which holds no key.
NewUserData == <<>>

\* organize_messages_by_user has returned and is called again, on the
\* message_data of another list of records.
OrganizeAgain ==
    /\ agg_pc = "returned"
    /\ calls = 1
    /\ \E raw \in RawListsUpTo(MaxTwice) :
          /\ raw_messages' = raw
          /\ agg_messages' = NormalizeAll(raw)
    /\ user_data' = NewUserData
    /\ agg_i' = 0
    /\ agg_pc' = "fold"
    /\ calls' = calls + 1
    /\ prev_messages' = agg_messages
    /\ UNCHANGED <<crawl_vars, other_vars, content_list>>

\* The analyzer's extract_content_only on every aggregate.
ExtractContents ==
    /\ agg_pc = "returned"
    /\ content_list' = [u \in DOMAIN user_data |-> ExtractContentOnly(user_data[u])]
    /\ agg_pc' = "analyzed"
    /\ UNCHANGED <<crawl_vars, other_vars, agg_observers, raw_messages, agg_messages, agg_i, user_data>>

\* ---------------------------------------------------------- specifications
\* organize_messages_by_user has not been called.
AggIdle ==
    /\ raw_messages = <<>>
    /\ agg_messages = <<>>
    /\ agg_pc = "idle"
    /\ agg_i = 0
    /\ user_data = <<>>
    /\ content_list = <<>>
    /\ calls = 0
    /\ prev_messages = <<>>

\* ------------------------------------------------- analyzer: chunk_messages
\* Lines 344-345: the length of the content between quotes, and one more for
\* the newline.
ContentLength(content) == Len(content) + 2 + 1

StartsNewChunkWhenOver(length, content_length, max_chars, chunk) ==
    length + content_length > max_chars

\* Line 347: the content does not fit and the current chunk is not empty.
StartsNewChunk(length, content_length, max_chars, chunk) ==
    length + content_length > max_chars /\ chunk # <<>>

\* Lines 343-354: one iteration of the for loop.
ChunkStep ==
    /\ chunk_pc = "loop"
    /\ chunk_i < Len(chunk_input)
    /\ LET content == chunk_input[chunk_i + 1]
           content_length == ContentLength(content)
       IN  IF StartsNewChunk(current_length, content_length,
                             max_chars_per_chunk, current_chunk)
               THEN /\ chunks' = Append(chunks, current_chunk)
                    /\ current_chunk' = <<content>>
                    /\ current_length' = content_length
               ELSE /\ current_chunk' = Append(current_chunk, content)
                    /\ current_length' = current_length + content_length
                    /\ UNCHANGED chunks
    /\ chunk_i' = chunk_i + 1
    /\ UNCHANGED <<crawl_vars, agg_vars, run_vars, chunk_input, max_chars_per_chunk,
                   chunk_pc>>

\* Lines 356-360: the last chunk is added when it is not empty, and the
\* chunks are returned.
ChunkEnd ==
    /\ chunk_pc = "loop"
    /\ chunk_i = Len(chunk_input)
    /\ chunks' = IF current_chunk # <<>> THEN Append(chunks, current_chunk) ELSE chunks
    /\ chunk_pc' = "returned"
    /\ UNCHANGED <<crawl_vars, agg_vars, run_vars, chunk_input, max_chars_per_chunk,
                   current_chunk, current_length, chunk_i>>

\* The contents that the lists given to chunk_messages are made of: strings
\* of 0, 1, 2 and 4 characters.
ContentPool == {<<>>, <<"a">>, <<"b", "b">>, <<"c", "c", "c", "c">>}

ContentLists == UNION {[1..n -> ContentPool] : n \in 0..MaxContents}

\* No call of chunk_messages.
ChunkIdle ==
    /\ chunk_input = <<>>
    /\ max_chars_per_chunk = 0
    /\ chunks = <<>>
    /\ current_chunk = <<>>
    /\ current_length = 0
    /\ chunk_i = 0
    /\ chunk_pc = "idle"

\* extract_server_content has its list of channels and has called nothing yet.
RunIdle ==
    /\ ids_given = TRUE
    /\ enumerated = "ok"
    /\ outcome = "running"
    /\ organized = <<>>
    /\ saved = <<>>

\* No call of the paginator yet.
CrawlIdle ==
    /\ idx = 0
    /\ all_messages = <<>>
    /\ messages = <<>>
    /\ before = None
    /\ total_messages = 0
    /\ has_more = TRUE
    /\ params = NoParams
    /\ last_resp = NoResp
    /\ resp_log = <<>>
    /\ retries = 0
    /\ consumed = 0
    /\ last_page = <<>>
    /\ over_limit = FALSE
    /\ results = <<>>
    /\ crawled = <<>>
    /\ failed = {}
    /\ served = <<>>

InitCrawl ==
    /\ channel_ids \in ChannelLists
    /\ max_messages \in {None} \cup 0..MaxCap
    /\ limit \in 1..MaxLimit
    /\ pc = "next"
    /\ RunIdle
    /\ ChunkIdle
    /\ CrawlIdle
    /\ AggIdle

Init ==
    /\ InitCrawl
    /\ hist = [c \in Channels |-> MaxHist]

\* Every channel of the server is crawled, in the order of the ids; each has
\* a history of its own.
InitHist ==
    /\ InitCrawl
    /\ channel_ids = [j \in 1..NumChannels |-> j]
    /\ hist \in [Channels -> 0..MaxHist]

Next ==
    \/ StartChannel
    \/ Request
    \/ Resp200
    \/ Resp429
    \/ RespError
    \/ Return
    \/ Finish

Spec == Init /\ [][Next]_vars

NextHist ==
    \/ StartChannel
    \/ Request
    \/ Resp200Hist
    \/ Resp429
    \/ RespError
    \/ Return
    \/ Finish

HistSpec == InitHist /\ [][NextHist]_vars

\* The mock server may also serve pages that hold a defective record.
NextRec ==
    \/ StartChannel
    \/ Request
    \/ Resp200
    \/ Resp200Defective
    \/ Resp429
    \/ RespError
    \/ Return
    \/ Finish

RecSpec == Init /\ [][NextRec]_vars

\* One channel is crawled, the only one of the server that holds messages.
InitLive ==
    /\ InitCrawl
    /\ \E c \in Channels, h \in 0..MaxHist :
          /\ channel_ids = <<c>>
          /\ hist = [d \in Channels |-> IF d = c THEN h ELSE 0]

\* The faithful server answers every request, and does not answer 429 for ever
\* to a request that is retried.
LiveSpec ==
    /\ InitLive
    /\ [][NextHist]_vars
    /\ WF_vars(NextHist)
    /\ SF_vars(Resp200Hist \/ RespError)

\* extract_server_content is called, with or without a list of channel ids
\* (an empty list is a list); every channel of the server is empty or full.
InitServer ==
    /\ ids_given \in BOOLEAN
    /\ channel_ids \in (IF ids_given THEN ChannelLists \cup {<<>>} ELSE {<<>>})
    /\ max_messages = None
    /\ limit = MaxLimit
    /\ hist \in [Channels -> {0, MaxHist}]
    /\ pc = "init"
    /\ enumerated = "pending"
    /\ outcome = "running"
    /\ organized = <<>>
    /\ saved = <<>>
    /\ ChunkIdle
    /\ CrawlIdle
    /\ AggIdle

NextServer ==
    \/ ResolveChannels
    \/ StartChannel
    \/ Request
    \/ Resp200Hist
    \/ Resp429
    \/ RespError
    \/ Return
    \/ Finish
    \/ Interrupt
    \/ Conclude

ServerSpec == InitServer /\ [][NextServer]_vars

\* chunk_messages is called on a list of contents, with a limit.
InitChunk ==
    /\ channel_ids = [j \in 1..NumChannels |-> j]
    /\ max_messages = None
    /\ limit = MaxLimit
    /\ hist = [c \in Channels |-> 0]
    /\ pc = "next"
    /\ RunIdle
    /\ CrawlIdle
    /\ AggIdle
    /\ chunk_input \in ContentLists
    /\ max_chars_per_chunk \in 0..MaxChars
    /\ chunks = <<>>
    /\ current_chunk = <<>>
    /\ current_length = 0
    /\ chunk_i = 0
    /\ chunk_pc = "loop"

NextChunk ==
    \/ ChunkStep
    \/ ChunkEnd

ChunkSpec == InitChunk /\ [][NextChunk]_vars

\* The crawl is over; the records of its pages are any list of the fixture.
InitAgg ==
    /\ channel_ids = [j \in 1..NumChannels |-> j]
    /\ max_messages = None
    /\ limit = MaxLimit
    /\ hist = [c \in Channels |-> 0]
    /\ pc = "done"
    /\ idx = NumChannels
    /\ all_messages = <<>>
    /\ messages = <<>>
    /\ before = None
    /\ total_messages = 0
    /\ has_more = FALSE
    /\ params = NoParams
    /\ last_resp = NoResp
    /\ resp_log = <<>>
    /\ retries = 0
    /\ consumed = 0
    /\ last_page = <<>>
    /\ over_limit = FALSE
    /\ results = <<>>
    /\ crawled = <<>>
    /\ failed = {}
    /\ served = <<>>
    /\ raw_messages \in RawLists
    /\ agg_messages = <<>>
    /\ agg_pc = "raw"
    /\ agg_i = 0
    /\ user_data = <<>>
    /\ content_list = <<>>
    /\ calls = 1
    /\ prev_messages = <<>>
    /\ RunIdle
    /\ ChunkIdle

NextAgg ==
    \/ NormalizeBatch
    \/ FoldStep
    \/ Finalize
    \/ ExtractContents

AggSpec == InitAgg /\ [][NextAgg]_vars

\* organize_messages_by_user is called on a short list and, when it has
\* returned, on another.
InitTwice ==
    /\ InitAgg
    /\ raw_messages \in RawListsUpTo(MaxTwice)

NextTwice ==
    \/ NormalizeBatch
    \/ FoldStep
    \/ Finalize
    \/ OrganizeAgain

TwiceSpec == InitTwice /\ [][NextTwice]_vars

\* ------------------------------------------------------------------ claims
Last(s) == s[Len(s)]

\* The call of the paginator for the current channel has returned.
Returned == pc \in {"next", "done"} /\ Len(results) > 0 /\ Len(results) = idx

\* The last response of this channel was a 200 page that was empty or shorter
\* than the limit of the request it answered.
TerminalPage ==
    /\ last_resp.status = 200
    /\ (last_resp.n = 0 \/ last_resp.n < last_resp.asked)

\* C1 (pagination termination): once a 200 page is empty or shorter than the
\* limit that was requested, the loop has stopped and no further request is in
\* flight for the channel; and the number of messages the call holds, and
\* returns, is the sum of the sizes of the 200 pages it consumed.
C1_PaginationTermination ==
    /\ TerminalPage => (pc # "awaiting" /\ ~has_more)
    /\ Len(messages) = consumed
    /\ Returned => Len(Last(results)) = consumed

\* A call returned after a full page followed by a short, non-empty one.
C1_Witness ==
    /\ Returned
    /\ TerminalPage
    /\ last_resp.n > 0
    /\ consumed > last_resp.n

\* C2 (cursor monotonicity): the first request carries no `before`; every
\* request sent after a non-empty 200 page carries the id of the last record
\* of the most recent non-empty page, and the cursor holds no other value.
C2_CursorRule ==
    LET cursor == IF last_page = <<>> THEN None ELSE Last(last_page).id
    IN  /\ pc \in {"loop", "awaiting"} => before = cursor
        /\ pc = "awaiting" => params.before = cursor
        /\ last_page # <<>> => before # None

\* A request is in flight whose cursor is the last id of a two-record page.
C2_Witness ==
    /\ pc = "awaiting"
    /\ Len(last_page) = 2
    /\ params.before = last_page[2].id
    /\ params.before # last_page[1].id

\* The response of this channel that ended the loop was an error status.
ErrorSeen == last_resp.status \in ErrorStatuses

\* The messages of channel c, newest first, as the paginator normalizes them,
\* cut at the cap: what a crawl that meets no 429 and no error returns.
Expected(c) ==
    LET n == IF max_messages = None THEN hist[c] ELSE Min(hist[c], max_messages)
    IN  [j \in 1..n |-> [id |-> hist[c] - j + 1, channel_id |-> c]]

\* C3 (backoff idempotence), faithful server: whatever 429 responses were
\* inserted, a call that met no error status returns the channel's messages
\* newest first up to the cap, every one once: the list of a crawl without 429.
C3_BackoffIdempotence ==
    (Returned /\ ~ErrorSeen) => Last(results) = Expected(channel_id)

\* A call returned three messages although a 429 came between its pages.
C3_Witness ==
    /\ Returned
    /\ ~ErrorSeen
    /\ Len(resp_log) >= 3
    /\ resp_log[1].status = 200
    /\ resp_log[2].status = 429
    /\ resp_log[3].status = 200
    /\ resp_log[3].n > 0
    /\ Len(Last(results)) = 3

\* The step that handles a 429 response.
Step429 == pc = "awaiting" /\ pc' = "loop" /\ last_resp'.status = 429

\* C4 (429 frame): a 429 response leaves the cursor, the extracted count and
\* the message list unchanged and the loop running, and the request the loop
\* sends next has the same `limit` and `before`; this holds after any number
\* of consecutive 429 responses, so the loop never gives up.
C4_RetrySameRequest ==
    [][Step429 =>
          /\ UNCHANGED <<before, total_messages, messages>>
          /\ LoopCond(has_more', max_messages', total_messages')
          /\ Params(limit', max_messages', total_messages', before') = params]_vars

\* The same request is in flight again after Max429 consecutive 429 responses,
\* with messages already extracted.
C4_Witness ==
    /\ pc = "awaiting"
    /\ retries = Max429
    /\ total_messages > 0
    /\ params.before = before

\* The responses of this channel were: a page of exactly the requested limit,
\* a 429, an empty page.
ScenarioFullThen429ThenEmpty ==
    /\ Len(resp_log) = 3
    /\ resp_log[1].status = 200 /\ resp_log[1].n = resp_log[1].asked
    /\ resp_log[2].status = 429
    /\ resp_log[3].status = 200 /\ resp_log[3].n = 0

\* C5 (scenario): after a page of exactly `limit` records, a 429 and an empty
\* page, the call holds exactly `limit` messages, has_more is false, no
\* request is in flight, the empty page was the last response (no error), and
\* what the call returns is those messages.
C5_Scenario ==
    ScenarioFullThen429ThenEmpty =>
        /\ Len(messages) = resp_log[1].asked
        /\ ~has_more
        /\ pc # "awaiting"
        /\ last_resp = resp_log[3]
        /\ Returned => Last(results) = messages

\* The scenario has happened and the call has returned.
C5_Witness ==
    /\ ScenarioFullThen429ThenEmpty
    /\ Returned
    /\ Len(Last(results)) = limit

\* Every message of channel c, newest first, as the paginator normalizes them.
WholeHistory(c) == [j \in 1..hist[c] |-> Normalize([id |-> hist[c] - j + 1], c)]

\* C6 (liveness of the crawl loop), faithful server that answers every request
\* and does not answer 429 for ever: a call that has entered its loop
\* eventually returns, and when max_messages is None and no error status came
\* it has returned every message of the channel.
C6_CrawlTerminates ==
    (pc = "loop") ~>
        (/\ Returned
         /\ (max_messages = None /\ ~ErrorSeen) => Last(results) = WholeHistory(channel_id))

\* A call without a cap returned a whole history of MaxHist messages although
\* its first request was answered 429.
C6_Witness ==
    /\ Returned
    /\ max_messages = None
    /\ ~ErrorSeen
    /\ hist[channel_id] = MaxHist
    /\ Len(Last(results)) = MaxHist
    /\ Len(resp_log) > 0
    /\ resp_log[1].status = 429

\* C7 (page-size rule): every request has limit = min(page_size, max_messages -
\* extracted so far) when max_messages is given, and page_size when it is not.
C7_PageSizeRule ==
    pc = "awaiting" =>
        params.limit =
            IF max_messages = None THEN limit
            ELSE IF max_messages - total_messages < limit
                 THEN max_messages - total_messages
                 ELSE limit

\* The last page before the cap is requested with a size below the page size.
C7_Witness ==
    /\ pc = "awaiting"
    /\ max_messages # None
    /\ total_messages > 0
    /\ params.limit < limit
    /\ params.limit = max_messages - total_messages

\* C8 (message cap): with max_messages given and no 200 page longer than the
\* limit of its request, the extracted count and the message list never
\* exceed max_messages, the returned list has at most max_messages messages,
\* and no request is in flight once the count has reached max_messages.
C8_MessageCap ==
    (max_messages # None /\ ~over_limit) =>
        /\ total_messages <= max_messages
        /\ Len(messages) <= max_messages
        /\ Returned => Len(Last(results)) <= max_messages
        /\ pc = "awaiting" => total_messages < max_messages

\* A call returned exactly max_messages messages, fetched in two pages.
C8_Witness ==
    /\ Returned
    /\ max_messages # None
    /\ ~over_limit
    /\ Len(Last(results)) = max_messages
    /\ max_messages > limit

\* C9 (channel-fatal error): after a response whose status is neither 200 nor
\* 429 no request is in flight for the channel, the loop flag is false, the
\* message list is the one accumulated before the error (the error step and
\* the steps after it leave it as it was), and the call returns that list.
C9_ErrorStopsChannel ==
    /\ [](ErrorSeen => /\ pc # "awaiting"
                        /\ ~has_more
                        /\ Len(messages) = consumed
                        /\ Returned => Last(results) = messages)
    /\ [][ErrorSeen' => messages' = messages]_vars

\* A call returned the two messages it had when the error response came.
C9_Witness ==
    /\ ErrorSeen
    /\ Returned
    /\ Len(Last(results)) = 2

RECURSIVE Flatten(_)
Flatten(ss) == IF ss = <<>> THEN <<>> ELSE Head(ss) \o Flatten(Tail(ss))

\* C10 (multi-channel isolation and order): the paginator is called once per
\* channel, in the order of the channel list; the flat list is the
\* concatenation of what the calls returned, in that order, including what
\* failing channels returned; and the crawl ends only when every channel of
\* the list has been crawled, whether or not an earlier channel failed.
C10_ChannelOrder ==
    /\ crawled = SubSeq(channel_ids, 1, idx)
    /\ Len(results) = (IF pc \in {"loop", "awaiting"} THEN idx - 1 ELSE idx)
    /\ \A j \in 1..Len(results) :
          \A k \in 1..Len(results[j]) : results[j][k].channel_id = channel_ids[j]
    /\ all_messages = Flatten(results)
    /\ pc = "done" => (idx = Len(channel_ids) /\ Len(results) = Len(channel_ids))

\* The crawl is done; the first channel failed after yielding messages, the
\* second channel was crawled and its messages follow the first channel's.
C10_Witness ==
    /\ pc = "done"
    /\ Len(channel_ids) = 2
    /\ channel_ids[1] \in failed
    /\ Len(results[1]) > 0
    /\ Len(results[2]) > 0
    /\ all_messages = results[1] \o results[2]

\* C11 (record-local errors): a record that does not normalize is dropped and
\* the crawl goes on: the crawl is never aborted, and when it is over the flat
\* list handed to the aggregator holds every well-formed record that the 200
\* pages carried (the rest of the defective record's page, the later pages and
\* the other channels).
C11_RecordLocalErrors ==
    /\ pc # "aborted"
    /\ pc = "done" => all_messages = served

\* organize_messages_by_user has returned.
AggReturned == agg_pc \in {"returned", "analyzed"}

\* The messages of author u in the list msgs, in the order of the list.
MessagesOf(msgs, u) == SelectSeq(msgs, LAMBDA m : m.author.id = u)

\* The instants of the messages of the list msgs.
Instants(msgs) == {Instant(msgs[i].timestamp_iso) : i \in DOMAIN msgs}

Perms(n) == {p \in [1..n -> 1..n] : Range(p) = 1..n}

\* The map after the loop of line 238 has taken every message of msgs.
RECURSIVE Fold(_)
Fold(msgs) ==
    IF msgs = <<>> THEN <<>>
    ELSE FoldMsg(Fold(SubSeq(msgs, 1, Len(msgs) - 1)), msgs[Len(msgs)])

\* The finalized stats of every user of the map ud, channels_used as a set.
StatsOf(ud) ==
    [u \in DOMAIN ud |->
        LET channels == CHOOSE l \in ListsOfSet(ud[u].stats.channels_used) : TRUE
        IN  [FinalizeStats(ud[u].stats, channels) EXCEPT !.channels_used = Range(@)]]

\* The messages of the set S in the order of their ids.
RECURSIVE InOrderOfIds(_)
InOrderOfIds(S) ==
    IF S = {} THEN <<>>
    ELSE LET m == CHOOSE x \in S : \A y \in S : x.message_id <= y.message_id
         IN  <<m>> \o InOrderOfIds(S \ {m})

\* C12 (aggregation order-independence): when organize_messages_by_user has
\* returned, the users and the stats of every user (counters, first_message,
\* last_message, averages, unique_channels, channels_used as a set) are those
\* that the function computes for the same messages in the order of their
\* ids.  The permutations of a list are all rearranged to that one list, so
\* they all have its stats.
C12_OrderIndependence ==
    agg_pc = "returned" =>
        StatsOf(Fold(InOrderOfIds(Range(agg_messages))))
            = [u \in DOMAIN user_data |->
                  [user_data[u].stats EXCEPT !.channels_used = Range(@)]]

\* The function has returned for three messages of one author that came in
\* an order that is not the order of their instants, from two channels.
C12_Witness ==
    /\ AggReturned
    /\ Len(agg_messages) = 3
    /\ DOMAIN user_data = {1}
    /\ Instant(agg_messages[1].timestamp_iso) > Instant(agg_messages[2].timestamp_iso)
    /\ Instant(agg_messages[3].timestamp_iso) < Instant(agg_messages[1].timestamp_iso)
    /\ user_data[1].stats.unique_channels = 2
    /\ user_data[1].stats.total_words > 0

\* C13 (chronological message lists): in every aggregate that
\* organize_messages_by_user returns, no message of the list is at a later
\* instant than the message that follows it.
C13_Chronological ==
    AggReturned =>
        \A u \in DOMAIN user_data :
            \A i \in 1..(Len(user_data[u].messages) - 1) :
                Instant(user_data[u].messages[i].timestamp_iso)
                    <= Instant(user_data[u].messages[i + 1].timestamp_iso)

\* The least and the greatest element of a non-empty set of integers.
MinOf(S) == CHOOSE x \in S : \A y \in S : x <= y
MaxOf(S) == CHOOSE x \in S : \A y \in S : x >= y

\* C14 (first/last timestamps): when organize_messages_by_user has returned,
\* first_message of every user is the least and last_message the greatest
\* instant of that user's messages of the input list, whatever their order;
\* so first_message is not after last_message, and they are the same when
\* the user has one message.
C14_FirstLast ==
    AggReturned =>
        \A u \in DOMAIN user_data :
            LET mine == MessagesOf(agg_messages, u)
                stats == user_data[u].stats
            IN  /\ stats.first_message = IsoFormat(MinOf(Instants(mine)))
                /\ stats.last_message = IsoFormat(MaxOf(Instants(mine)))
                /\ Instant(stats.first_message) <= Instant(stats.last_message)
                /\ Len(mine) = 1 => stats.first_message = stats.last_message

\* A user's latest message came first and the earliest came second; another
\* user has one message.
C14_Witness ==
    /\ AggReturned
    /\ Len(agg_messages) = 3
    /\ agg_messages[1].author.id = 1
    /\ agg_messages[2].author.id = 1
    /\ agg_messages[3].author.id = 2
    /\ Instant(agg_messages[1].timestamp_iso) > Instant(agg_messages[2].timestamp_iso)
    /\ user_data[1].stats.first_message = agg_messages[2].timestamp_iso
    /\ user_data[1].stats.last_message # agg_messages[1].timestamp_iso
    /\ Instant(user_data[1].stats.last_message) = Instant(agg_messages[1].timestamp_iso)

\* C15 (default safety): no average of a returned aggregate is the result of
\* a division by zero; the aggregate of a user without messages (the default
\* value of the map, finalized) has both averages 0; and for the empty list
\* organize_messages_by_user returns the empty map.
C15_DefaultSafety ==
    /\ AggReturned =>
          \A u \in DOMAIN user_data :
              /\ user_data[u].stats.avg_message_length.den # 0
              /\ user_data[u].stats.avg_words_per_message.den # 0
    /\ LET stats == FinalizeUser(DefaultAggregate, <<>>).stats
       IN  /\ stats.total_messages = 0
           /\ stats.avg_message_length = Div(0, 1)
           /\ stats.avg_words_per_message = Div(0, 1)
    /\ (AggReturned /\ agg_messages = <<>>) => user_data = <<>>

\* organize_messages_by_user has returned for the empty list.
C15_Witness ==
    /\ AggReturned
    /\ raw_messages = <<>>
    /\ agg_messages = <<>>
    /\ DOMAIN user_data = {}

\* The input is three messages of author 1 with contents "hi", "" and "bye"
\* at instants T1 < T2 < T3, in the order given by the permutation p.
ScenarioHiEmptyBye(p) ==
    /\ Len(agg_messages) = 3
    /\ \A i \in 1..3 : agg_messages[i].author.id = 1
    /\ agg_messages[p[1]].content = <<"h", "i">>
    /\ agg_messages[p[2]].content = <<>>
    /\ agg_messages[p[3]].content = <<"b", "y", "e">>
    /\ Instant(agg_messages[p[1]].timestamp_iso) < Instant(agg_messages[p[2]].timestamp_iso)
    /\ Instant(agg_messages[p[2]].timestamp_iso) < Instant(agg_messages[p[3]].timestamp_iso)

\* C16 (scenario): three messages of one author at T1 < T2 < T3 with contents
\* "hi", "" and "bye", given in any order, produce one aggregate with
\* total_messages = 3 and total_characters = 5 whose message list is the three
\* messages in the order T1, T2, T3, and extract_content_only returns
\* ["hi", "bye"] for it.
C16_Scenario ==
    \A p \in Perms(3) :
        (agg_pc = "analyzed" /\ ScenarioHiEmptyBye(p)) =>
            /\ DOMAIN user_data = {1}
            /\ user_data[1].stats.total_messages = 3
            /\ user_data[1].stats.total_characters = 5
            /\ user_data[1].messages
                  = <<agg_messages[p[1]], agg_messages[p[2]], agg_messages[p[3]]>>
            /\ content_list[1] = <<<<"h", "i">>, <<"b", "y", "e">>>>

\* The list strs without the entries that are the empty string.
NonEmpty(strs) == SelectSeq(strs, LAMBDA s : s # <<>>)

\* C17 as stated (analyzer content list): extract_content_only of a returned
\* aggregate is the list of the content strings of its messages that are not
\* empty, in the order of the message list.
C17_NonEmptyContents ==
    agg_pc = "analyzed" =>
        \A u \in DOMAIN user_data :
            content_list[u]
                = NonEmpty([i \in 1..Len(user_data[u].messages) |->
                               user_data[u].messages[i].content])

\* The string s has a character that is not white space.
NonBlank(s) == \E j \in 1..Len(s) : ~IsSpace(s[j])

\* t is s without its leading and trailing white space.
IsStripOf(t, s) ==
    \E a \in 0..Len(s), b \in 0..Len(s) :
        /\ a <= b
        /\ t = SubSeq(s, a + 1, b)
        /\ \A j \in 1..a : IsSpace(s[j])
        /\ \A j \in (b + 1)..Len(s) : IsSpace(s[j])
        /\ t # <<>> => (~IsSpace(t[1]) /\ ~IsSpace(t[Len(t)]))

\* C17 amended: extract_content_only of a returned aggregate has one entry
\* for every message of the list whose content is not only white space, in
\* the order of the message list, and the entry is that content without its
\* leading and trailing white space.
C17_StrippedContents ==
    agg_pc = "analyzed" =>
        \A u \in DOMAIN user_data :
            LET msgs == user_data[u].messages
                kept == SelectSeq([i \in 1..Len(msgs) |-> i],
                                  LAMBDA i : NonBlank(msgs[i].content))
            IN  /\ Len(content_list[u]) = Len(kept)
                /\ \A k \in 1..Len(kept) :
                      IsStripOf(content_list[u][k], msgs[kept[k]].content)

\* A user has a message whose content is white space only, which has no
\* entry, and a message whose content ends in a space, which has a shorter
\* entry.
C17_Witness ==
    /\ agg_pc = "analyzed"
    /\ 2 \in DOMAIN user_data
    /\ Len(user_data[2].messages) = 3
    /\ user_data[2].messages[1].content = <<" ">>
    /\ user_data[2].messages[2].content = <<"o", "k", " ">>
    /\ content_list[2] = <<<<"o", "k">>, <<"o", "k">>>>

\* The records of the pages have been normalized.
Normalized == agg_pc # "raw" /\ Len(agg_messages) = Len(raw_messages)

\* C18 (full-username rule): full_username of a normalized message is the
\* author's username when the raw author's discriminator is "0" or absent,
\* and username, "#" and the discriminator otherwise ("4242" gives
\* "bob#4242" for the user bob).
C18_FullUsername ==
    Normalized =>
        \A i \in 1..Len(raw_messages) :
            LET author == raw_messages[i].msg.author
                full_username == agg_messages[i].full_username
            IN  IF "discriminator" \notin DOMAIN author
                    THEN full_username = author.username
                ELSE IF author.discriminator = "0"
                    THEN full_username = author.username
                ELSE /\ full_username
                          = author.username \o "#" \o author.discriminator
                     /\ (author.username = "bob" /\ author.discriminator = "4242")
                            => full_username = "bob#4242"

\* Three records were normalized: one without discriminator, one with the
\* discriminator "0" and one with the discriminator "4242".
C18_Witness ==
    /\ Normalized
    /\ Len(raw_messages) = 3
    /\ "discriminator" \notin DOMAIN raw_messages[1].msg.author
    /\ agg_messages[1].full_username = "alice"
    /\ Get(raw_messages[2].msg.author, "discriminator", NoneStr) = "0"
    /\ agg_messages[2].full_username = "alice"
    /\ Get(raw_messages[3].msg.author, "discriminator", NoneStr) = "4242"
    /\ agg_messages[3].full_username = "bob#4242"

\* The raw record has the mandatory fields only.
Minimal(msg) ==
    /\ DOMAIN msg = {"id", "timestamp", "author"}
    /\ DOMAIN msg.author = {"id", "username"}

\* C19 (normalizer defaults): a raw record with only the mandatory fields
\* (id, timestamp, author id, author username) is normalized, with the
\* content "", no attachments, embeds, reactions, mentions, role mentions or
\* channel mentions, reply_to and edited_timestamp None, pinned false,
\* message_type 0, flags 0, and an author that is no bot, has the
\* discriminator "0" and its username as display_name.
C19_NormalizerDefaults ==
    Normalized =>
        \A i \in 1..Len(raw_messages) :
            Minimal(raw_messages[i].msg) =>
                LET msg == raw_messages[i].msg
                    data == agg_messages[i]
                IN  /\ data.message_id = msg.id
                    /\ data.timestamp_iso = msg.timestamp
                    /\ data.author.id = msg.author.id
                    /\ data.author.username = msg.author.username
                    /\ data.content = <<>>
                    /\ data.attachments = <<>>
                    /\ data.embeds = <<>>
                    /\ data.reactions = <<>>
                    /\ data.mentions = <<>>
                    /\ data.role_mentions = <<>>
                    /\ data.channel_mentions = <<>>
                    /\ data.reply_to = NoneRec
                    /\ data.pinned = FALSE
                    /\ data.edited_timestamp = NoneStr
                    /\ data.message_type = 0
                    /\ data.flags = 0
                    /\ data.author.bot = FALSE
                    /\ data.author.discriminator = "0"
                    /\ data.author.display_name = msg.author.username

\* A record with the mandatory fields only was normalized, between two
\* records that have optional fields.
C19_Witness ==
    /\ Normalized
    /\ Len(raw_messages) = 3
    /\ ~Minimal(raw_messages[1].msg)
    /\ Minimal(raw_messages[2].msg)
    /\ ~Minimal(raw_messages[3].msg)
    /\ agg_messages[2].author.display_name = "alice"
    /\ agg_messages[3].pinned = TRUE

\* The first message of author u among the messages the loop has taken.
FirstOf(u) == MessagesOf(SubSeq(agg_messages, 1, agg_i), u)[1]

\* C20 (first write wins): at every point of the fold and after it, the map
\* has one entry for every author id among the messages taken so far, and its
\* user_info is the author snapshot of the first of that author's messages in
\* the input list, with that message's full_username added; a later message
\* of the author does not change it.
C20_FirstWriteWins ==
    /\ DOMAIN user_data = {agg_messages[i].author.id : i \in 1..agg_i}
    /\ \A u \in DOMAIN user_data :
          LET user_info == user_data[u].user_info
              first == FirstOf(u)
          IN  /\ DOMAIN user_info = DOMAIN first.author \cup {"full_username"}
              /\ \A k \in DOMAIN first.author : user_info[k] = first.author[k]
              /\ user_info.full_username = first.full_username
              /\ user_info.id = u

\* An author's second message has another snapshot than the first (another
\* display name and avatar), and user_info is the first one.
C20_Witness ==
    /\ AggReturned
    /\ Len(agg_messages) = 3
    /\ agg_messages[1].author.id = 1
    /\ agg_messages[2].author.id = 1
    /\ agg_messages[3].author.id = 2
    /\ agg_messages[1].author.display_name = "alice"
    /\ agg_messages[2].author.display_name = "Al"
    /\ agg_messages[1].author.avatar # agg_messages[2].author.avatar
    /\ user_data[1].user_info.display_name = "alice"
    /\ user_data[1].user_info.avatar = agg_messages[1].author.avatar

\* C24 (delivery order): the list a call of extract_messages_with_content
\* builds and returns is the concatenation of the 200 pages of its channel
\* in the order they were received, every page in the order of delivery;
\* with a server that delivers newest first and a cursor that goes back in
\* time, every returned list is in descending order of message ids (newest
\* first).
C24_DeliveryOrder ==
    /\ pc \in {"loop", "awaiting"} => all_messages \o messages = served
    /\ pc \in {"next", "done"} => Flatten(results) = served
    /\ \A j \in 1..Len(results) :
          \A k \in 1..(Len(results[j]) - 1) :
              results[j][k].id > results[j][k + 1].id

\* A call has returned three messages that came in two pages, the newest
\* first.
C24_Witness ==
    /\ Returned
    /\ limit = 2
    /\ Len(resp_log) >= 2
    /\ resp_log[1] = Resp(200, 2, 2)
    /\ resp_log[2] = Resp(200, 1, 2)
    /\ Len(Last(results)) = 3
    /\ Last(results)[1].id = 3
    /\ Last(results)[3].id = 1

\* C25 (request-size invariant): every request that is sent asks for at
\* least one record and for at most page_size records; with max_messages = 0
\* no request is sent and every call returns the empty list.
C25_RequestSize ==
    /\ pc = "awaiting" => (1 <= params.limit /\ params.limit <= limit)
    /\ max_messages = 0 =>
          /\ pc # "awaiting"
          /\ params = NoParams
          /\ resp_log = <<>>
          /\ messages = <<>>
          /\ \A j \in 1..Len(results) : results[j] = <<>>

\* The crawl of two channels is over with max_messages = 0: nothing was
\* requested and nothing extracted.
C25_Witness ==
    /\ pc = "done"
    /\ max_messages = 0
    /\ Len(results) = 2
    /\ all_messages = <<>>
    /\ served = <<>>

\* The number of entries of the list s that are x.
Count(s, x) == Cardinality({k \in DOMAIN s : s[k] = x})

\* The sum of total_messages over the users of the set U.
RECURSIVE SumTotals(_)
SumTotals(U) ==
    IF U = {} THEN 0
    ELSE LET u == CHOOSE v \in U : TRUE
         IN  user_data[u].stats.total_messages + SumTotals(U \ {u})

\* C26 (aggregation is a partition): when organize_messages_by_user has
\* returned, the keys of the map are the author ids of the input; every
\* input message is once in the message list of its author's aggregate and
\* in no other list, and the lists hold nothing else; total_messages of a
\* user is the length of the user's list, and the total_messages of all
\* users sum to the length of the input.
C26_Partition ==
    AggReturned =>
        /\ DOMAIN user_data
              = {agg_messages[i].author.id : i \in DOMAIN agg_messages}
        /\ \A u \in DOMAIN user_data :
              /\ \A i \in DOMAIN agg_messages :
                    Count(user_data[u].messages, agg_messages[i])
                        = (IF agg_messages[i].author.id = u THEN 1 ELSE 0)
              /\ Range(user_data[u].messages) \subseteq Range(agg_messages)
              /\ user_data[u].stats.total_messages = Len(user_data[u].messages)
        /\ SumTotals(DOMAIN user_data) = Len(agg_messages)

\* Two messages of one author with the same timestamp string, and between
\* them a message of another author: two aggregates, of two and one messages.
C26_Witness ==
    /\ AggReturned
    /\ Len(agg_messages) = 3
    /\ agg_messages[1].author.id = 1
    /\ agg_messages[2].author.id = 2
    /\ agg_messages[3].author.id = 1
    /\ agg_messages[1].timestamp_iso = agg_messages[3].timestamp_iso
    /\ Len(user_data[1].messages) = 2
    /\ Len(user_data[2].messages) = 1

\* C27 (distinct-channel statistics): when organize_messages_by_user has
\* returned, channels_used of every user lists each channel id of the user's
\* messages once and nothing else, unique_channels is the length of that
\* list, and 1 <= unique_channels <= total_messages.
C27_DistinctChannels ==
    AggReturned =>
        \A u \in DOMAIN user_data :
            LET stats == user_data[u].stats
                mine == MessagesOf(agg_messages, u)
                used == {mine[i].channel_id : i \in DOMAIN mine}
            IN  /\ Range(stats.channels_used) = used
                /\ Len(stats.channels_used) = Cardinality(used)
                /\ stats.unique_channels = Len(stats.channels_used)
                /\ 1 <= stats.unique_channels
                /\ stats.unique_channels <= stats.total_messages

\* A user has three messages, two of them from the same channel, and the
\* list of channels names the second channel first.
C27_Witness ==
    /\ AggReturned
    /\ DOMAIN user_data = {1}
    /\ user_data[1].stats.total_messages = 3
    /\ agg_messages[1].channel_id = 1
    /\ agg_messages[2].channel_id = 1
    /\ agg_messages[3].channel_id = 2
    /\ user_data[1].stats.channels_used = <<2, 1>>
    /\ user_data[1].stats.unique_channels = 2

\* C28 (messages are not modified by aggregation): no step of
\* organize_messages_by_user, from its call to its return, changes the input
\* list or a field of a message of it, and no author record of a message of
\* the list has the key full_username.
C28_InputUnchanged ==
    [][agg_pc = "fold" =>
          /\ agg_messages' = agg_messages
          /\ \A i \in DOMAIN agg_messages :
                "full_username" \notin DOMAIN agg_messages'[i].author]_vars

\* The function has returned: user_info has the key full_username, the
\* author record of the user's first message has not, and the user's list
\* is in another order than the input.
C28_Witness ==
    /\ AggReturned
    /\ Len(agg_messages) = 3
    /\ DOMAIN user_data = {1}
    /\ user_data[1].user_info.full_username = "alice"
    /\ "full_username" \notin DOMAIN agg_messages[1].author
    /\ user_data[1].messages # agg_messages
    /\ agg_messages = NormalizeAll(raw_messages)

\* C23 (no process-wide aggregation state): whenever a call of
\* organize_messages_by_user has returned, the first or the second, the map
\* it returned is the map that the fold and the finalization make of this
\* call's list alone, starting from the empty map: the same users, and for
\* each the same user_info, messages and stats (channels_used in the order
\* the call listed them).
C23_NoSharedState ==
    agg_pc = "returned" =>
        LET alone == Fold(agg_messages)
        IN  /\ DOMAIN user_data = DOMAIN alone
            /\ \A u \in DOMAIN alone :
                  /\ Range(user_data[u].stats.channels_used)
                        = alone[u].stats.channels_used
                  /\ user_data[u]
                        = FinalizeUser(alone[u], user_data[u].stats.channels_used)

\* The second call has returned; the first was given a message of another
\* author, who is not in the second result.
C23_Witness ==
    /\ agg_pc = "returned"
    /\ calls = 2
    /\ Len(prev_messages) = 1
    /\ prev_messages[1].author.id = 1
    /\ Len(agg_messages) = 1
    /\ agg_messages[1].author.id = 2
    /\ DOMAIN user_data = {2}
    /\ user_data[2].stats.total_messages = 1

\* C21 (abort keeps partial results): when the crawl of extract_server_content
\* is interrupted during a later channel, after the messages of at least one
\* channel have been extracted, the messages extracted so far have been given
\* to organize_messages_by_user and their aggregates have been saved.
C21_AbortKeepsPartial ==
    (outcome = "interrupted" /\ all_messages # <<>>) =>
        /\ organized = <<all_messages>>
        /\ saved = <<all_messages>>

\* C22 (crawl-initialization failure): when enumerate_channels has failed,
\* with or without channel ids supplied by the caller, no channel is crawled
\* and no message-page request is sent, the aggregator is not called and
\* nothing is saved, and the call has ended by returning None (no ids
\* supplied) or by raising (ids supplied).
C22_InitFailure ==
    enumerated = "failed" =>
        /\ pc = "exited"
        /\ crawled = <<>>
        /\ params = NoParams
        /\ resp_log = <<>>
        /\ served = <<>>
        /\ organized = <<>>
        /\ saved = <<>>
        /\ outcome = (IF ids_given THEN "raised" ELSE "none")

\* The caller supplied two channels, enumerate_channels failed and the call
\* has ended by raising.
C22_Witness ==
    /\ enumerated = "failed"
    /\ ids_given
    /\ Len(channel_ids) = 2
    /\ outcome = "raised"

\* At least one message was extracted from at least one channel.
SomeExtracted == \E j \in 1..Len(results) : results[j] # <<>>

\* C29 (no output without messages): the aggregator is called and the output
\* is saved only by a call that returns the extraction directory, once, for
\* the flat list, which is then not empty; a call that has returned after its
\* crawl returned the directory if at least one channel's call extracted a
\* message and None if every channel yielded zero messages; a call that
\* returned None called no aggregator and saved nothing.
C29_NoOutputWithoutMessages ==
    /\ (organized # <<>> \/ saved # <<>>) =>
          /\ outcome = "dir"
          /\ all_messages # <<>>
          /\ organized = <<all_messages>>
          /\ saved = <<all_messages>>
    /\ outcome \in {"none", "dir"} =>
          /\ Len(results) = Len(channel_ids)
          /\ outcome = "dir" <=> SomeExtracted
          /\ outcome = "dir" <=> (organized # <<>> /\ saved # <<>>)
    /\ outcome = "none" => (organized = <<>> /\ saved = <<>>)

\* Two channels were crawled, one ended on an error response and the other
\* was empty, and the call returned None.
C29_Witness ==
    /\ outcome = "none"
    /\ Len(results) = 2
    /\ Cardinality(failed) = 1
    /\ ~SomeExtracted
    /\ saved = <<>>

\* The length that chunk_messages counts for a chunk.
RECURSIVE ChunkCost(_)
ChunkCost(chunk) ==
    IF chunk = <<>> THEN 0 ELSE ContentLength(Head(chunk)) + ChunkCost(Tail(chunk))

\* C30 (chunking loses nothing): when chunk_messages has returned, every
\* chunk is non-empty, the concatenation of the chunks in order is the input
\* list, and a chunk whose messages, each counted as its length + 3, exceed
\* max_chars_per_chunk consists of a single message.
C30_ChunkingLosesNothing ==
    chunk_pc = "returned" =>
        /\ \A k \in 1..Len(chunks) : chunks[k] # <<>>
        /\ Flatten(chunks) = chunk_input
        /\ \A k \in 1..Len(chunks) :
              ChunkCost(chunks[k]) > max_chars_per_chunk => Len(chunks[k]) = 1

\* A call has returned three messages in two chunks: one holds a single
\* message that is over the limit, the other holds two messages.
C30_Witness ==
    /\ chunk_pc = "returned"
    /\ Len(chunk_input) = 3
    /\ Len(chunks) = 2
    /\ Len(chunks[1]) = 1
    /\ ChunkCost(chunks[1]) > max_chars_per_chunk
    /\ Len(chunks[2]) = 2

====
